---- MODULE Spec2Model ----
(***************************************************************************)
(* A model of the F1Visualizer scripts:                                    *)
(*   - format_timedelta       (src/extract_race_data.py,                   *)
(*                             src/extract_race_data_detailed.py)          *)
(*   - extract_race_data      (src/extract_race_data.py), the text report  *)
(*   - the telemetry statistics of one lap (src/extract_race_data.py)      *)
(*   - the Streamlit dashboard script (src/vizi.py), one action per        *)
(*     script run                                                          *)
(* Each specification of the module runs one of these and leaves the       *)
(* variables of the others at their initial values.                        *)
(***************************************************************************)
EXTENDS Integers, Sequences, FiniteSets, TLC

VARIABLES
    fmt_td,      \* the argument of format_timedelta: NaT or a duration in ticks
    fmt_out,     \* what format_timedelta returned, a sequence of characters (<<>>: not called yet)
    rep_pc,      \* extract_race_data: "load", "open", "write" or "done"
    rep_args,    \* its arguments [year, event, session_type, description]
    rep_session, \* the loaded Session (NoSession before session.load() returns)
    rep_now,     \* datetime.now() of the run
    rep_result,  \* "none", "returned" or "raised"
    rep_error,   \* the exception that left extract_race_data ("" for none)
    fs,          \* the working directory: file name -> [exists, text]
    rep_provider, \* the Session the provider holds for the arguments
    rep_assigned, \* the columns of the loaded Session's frames assigned to in place
    rep_runs,    \* the number of calls of extract_race_data so far
    rep_prev,    \* the call before this one: [ran, args, session, now, result, text]
    ss,          \* st.session_state: [hide_visi_buton, last_selections, data_loaded,
                 \*   driver_number_name_map], a key that is not set holding Unset
    provider,    \* the drivers of the Session fastf1 returns, in session.drivers order
    run,         \* the last script run: its widget values and what it showed
    loaded_for,  \* the triple of the last successful Load (NoTriple before one)
    tel_col,     \* one column of a lap's telemetry: [name, samples]
    tel_pc,      \* the telemetry statistics: "stats" or "done"
    tel_out      \* the lines they wrote

fmtVars == <<fmt_td, fmt_out>>

repVars == <<rep_pc, rep_args, rep_session, rep_now, rep_result, rep_error, fs,
            rep_provider, rep_assigned, rep_runs, rep_prev>>

dashVars == <<ss, provider, run, loaded_for>>

telVars == <<tel_col, tel_pc, tel_out>>

vars == <<fmt_td, fmt_out, rep_pc, rep_args, rep_session, rep_now,
          rep_result, rep_error, fs, rep_provider, rep_assigned, rep_runs, rep_prev,
          ss, provider, run, loaded_for,
          tel_col, tel_pc, tel_out>>

(***************************************************************************)
(* Durations.  A pandas Timedelta has a resolution finer than a            *)
(* millisecond (a mean of lap times is not a whole number of               *)
(* milliseconds), so a duration is a natural number of ticks, SubMs ticks  *)
(* to the millisecond.                                                     *)
(***************************************************************************)
SubMs == 4
MaxMinutes == 11
EdgeMs == 2

\* pd.NaT / a missing duration (pd.isna(td) holds); every real duration is >= 0
NaT == -1

TicksPerSecond == 1000 * SubMs
TicksPerMinute == 60 * TicksPerSecond

\* the second offsets tried within each minute: just above a whole minute,
\* just below the next one, and 5.5 s
SecondOffsets ==
    (0 .. (EdgeMs * SubMs - 1))
      \cup ((TicksPerMinute - EdgeMs * SubMs) .. (TicksPerMinute - 1))
      \cup {5500 * SubMs}

Durations == { m * TicksPerMinute + o : m \in 0 .. MaxMinutes, o \in SecondOffsets }

\* ---- decimal rendering -------------------------------------------------
Digit(d) == <<"0", "1", "2", "3", "4", "5", "6", "7", "8", "9">>[d + 1]

RECURSIVE Dec(_)
\* str(n) / f"{n}" of a natural number: no padding
Dec(n) == IF n < 10 THEN <<Digit(n)>> ELSE Dec(n \div 10) \o <<Digit(n % 10)>>

RECURSIVE ZeroPad(_, _)
\* left-pad with "0" up to a minimum width w (a wider field is left alone)
ZeroPad(s, w) == IF Len(s) >= w THEN s ELSE ZeroPad(<<"0">> \o s, w)

\* the values f"{x:.3f}" can round x to, in milliseconds.  x is given in
\* ticks.  An exact half is decided by the binary value of the float, which
\* may lie on either side: both outcomes are possible.
Round3(ticks) ==
    LET lo  == ticks \div SubMs
        rem == ticks % SubMs
    IN  IF 2 * rem < SubMs THEN {lo}
        ELSE IF 2 * rem > SubMs THEN {lo + 1}
        ELSE {lo, lo + 1}

\* f"{seconds:06.3f}" for a value already rounded to ms milliseconds:
\* three decimals, zero-padded to a minimum total width of 6
Fixed063(ms) ==
    ZeroPad(Dec(ms \div 1000) \o <<".">> \o ZeroPad(Dec(ms % 1000), 3), 6)

NoTime == <<"N", "o", " ", "t", "i", "m", "e">>

\* format_timedelta(td): the set of strings it can return for td
format_timedelta(td) ==
    IF td = NaT THEN {NoTime}
    ELSE LET minutes == td \div TicksPerMinute       \* int(total_seconds // 60)
             seconds == td % TicksPerMinute          \* total_seconds % 60
         IN  { Dec(minutes) \o <<":">> \o Fixed063(r) : r \in Round3(seconds) }

\* ---- specification of the formatter -------------------------------------
FmtInit ==
    /\ fmt_td \in Durations \cup {NaT}
    /\ fmt_out = <<>>

\* the formatter is not in use
FmtIdle ==
    /\ fmt_td = NaT
    /\ fmt_out = <<>>

Format ==
    /\ fmt_out = <<>>
    /\ fmt_out' \in format_timedelta(fmt_td)
    /\ UNCHANGED fmt_td
    /\ UNCHANGED repVars
    /\ UNCHANGED dashVars
    /\ UNCHANGED telVars

FmtNext == Format


(***************************************************************************)
(* extract_race_data (src/extract_race_data.py).                           *)
(*                                                                         *)
(* A Session is [results, laps, weather]:                                  *)
(*   results  the rows of session.results in their native order, each      *)
(*            [num, pos]: DriverNumber and Position                        *)
(*   laps     the rows of session.laps in their native order, each         *)
(*            [drv, time, tel]: DriverNumber, LapTime (NaT or ticks) and   *)
(*            what lap.get_telemetry() does: "ok" (samples), "empty" or    *)
(*            "raises"                                                     *)
(*   weather  whether session.weather_data has rows                        *)
(***************************************************************************)
MaxDrivers == 2
MaxLaps == 2

SessionTypes == {"Race", "Qualifying", "FP1"}

\* the lap time of a lap that has one: 1:30.000
ValidLapTime == 90000 * SubMs

Telemetry == {"ok", "empty", "raises"}

Perms(n) == { f \in [1 .. n -> 1 .. n] : \A i, j \in 1 .. n : i # j => f[i] # f[j] }

ResultsOf(n) == { [i \in 1 .. n |-> [num |-> i, pos |-> p[i]]] : p \in Perms(n) }

LapKinds(n) ==
    { [drv |-> d, time |-> NaT, tel |-> "ok"] : d \in 1 .. n }
      \cup { [drv |-> d, time |-> ValidLapTime, tel |-> t] : d \in 1 .. n, t \in Telemetry }

LapSeqs(n) == UNION { [1 .. k -> LapKinds(n)] : k \in 0 .. MaxLaps }

Sessions ==
    UNION { [results : ResultsOf(n), laps : LapSeqs(n), weather : BOOLEAN] :
            n \in 0 .. MaxDrivers }

NoSession == [results |-> <<>>, laps |-> <<>>, weather |-> FALSE]

\* session.results['Position'] is a float column ("Convert float to int")
PositionDtype == "float"

\* ---- the document --------------------------------------------------------
\* One written line (or group of lines) of the report: the section it belongs
\* to, what it is, and up to two numbers it shows.
Line(sec, kind, a, b) == [sec |-> sec, kind |-> kind, a |-> a, b |-> b]

\* what a stretch of the body produced: the lines written and the exception
\* that ended it ("" for none)
Part(lines, err) == [lines |-> lines, err |-> err]

\* session.laps with each row's index (its identity in the report)
IndexedLaps(session) ==
    [i \in 1 .. Len(session.laps) |->
        [id |-> i, drv |-> session.laps[i].drv, time |-> session.laps[i].time,
         tel |-> session.laps[i].tel]]

HasTime(lap) == lap.time # NaT

\* laps.pick_fastest(): the first lap with the smallest LapTime, or None
\* (a row with id 0) when no lap has a time
pick_fastest(laps) ==
    LET timed == SelectSeq(laps, HasTime)
    IN  IF timed = <<>> THEN [id |-> 0, drv |-> 0, time |-> NaT, tel |-> "empty"]
        ELSE timed[CHOOSE i \in 1 .. Len(timed) :
                     /\ \A j \in 1 .. Len(timed) : timed[i].time <= timed[j].time
                     /\ \A j \in 1 .. (i - 1) : timed[j].time > timed[i].time]

\* results.sort_values('Position'): ascending, by insertion
RECURSIVE InsertByPos(_, _)
InsertByPos(sorted, row) ==
    IF sorted = <<>> THEN <<row>>
    ELSE IF row.pos < Head(sorted).pos THEN <<row>> \o sorted
    ELSE <<Head(sorted)>> \o InsertByPos(Tail(sorted), row)

RECURSIVE sort_values(_)
sort_values(rows) ==
    IF rows = <<>> THEN <<>>
    ELSE InsertByPos(sort_values(SubSeq(rows, 1, Len(rows) - 1)), rows[Len(rows)])

\* lines 70-83: the description, if given, and the event summary
SecHeader(args) ==
    Part((IF args.description THEN <<Line("description", "text", 0, 0)>> ELSE <<>>)
           \o <<Line("event_summary", "header", args.year, 0)>>, "")

\* lines 85-100: the session overview with the overall fastest lap
SecOverview(session) ==
    LET all_laps    == IndexedLaps(session)
        fastest_lap == pick_fastest(all_laps)
    IN  Part(<<Line("overview", "header", 0, 0)>>
               \o (IF all_laps # <<>> /\ fastest_lap.id # 0
                   THEN <<Line("overview", "fastest", fastest_lap.drv, fastest_lap.id)>>
                   ELSE <<>>), "")

\* lines 107-111: the rows of the race classification
RECURSIVE RaceRows(_)
RaceRows(rows) ==
    IF rows = <<>> THEN <<>>
    ELSE <<Line("classification", "P", Head(rows).pos, Head(rows).num)>>    \* int(Position)
           \o RaceRows(Tail(rows))

\* lines 116-120: the rows of the qualifying results.  f"P{Position:2d}"
\* raises ValueError for a float, at the first row
QualifyingRows(rows) ==
    IF rows = <<>> THEN Part(<<>>, "")
    ELSE IF PositionDtype = "float" THEN Part(<<>>, "ValueError")
    ELSE Part(RaceRows(rows), "")

\* lines 102-120
SecClassification(args, session) ==
    IF args.session_type = "Race"
    THEN Part(<<Line("classification", "header", 0, 0)>>
                \o RaceRows(sort_values(session.results)), "")
    ELSE IF args.session_type = "Qualifying"
    THEN LET rows == QualifyingRows(sort_values(session.results))
         IN  Part(<<Line("classification", "header", 0, 0)>> \o rows.lines, rows.err)
    ELSE Part(<<>>, "")

\* lines 122-159
SecTrackConditions(session) ==
    Part(<<Line("conditions", "header", 0, 0)>>
           \o (IF session.weather
               THEN <<Line("conditions", "weather", Len(session.laps), 0)>>
               ELSE <<>>), "")

\* f"{(completed_laps/total_laps*100):.1f}%" in tenths of a percent
CompletionRate(completed_laps, total_laps) ==
    (2000 * completed_laps + total_laps) \div (2 * total_laps)

\* lines 163-167 and 279-285: total laps, completed laps, completion rate;
\* the division raises ZeroDivisionError when total_laps is 0
StatLines(sec, session) ==
    LET total_laps     == Len(session.laps)
        completed_laps == Len(SelectSeq(session.laps, HasTime))
        counts == <<Line(sec, "total", total_laps, 0),
                    Line(sec, "completed", completed_laps, 0)>>
    IN  IF total_laps = 0 THEN Part(counts, "ZeroDivisionError")
        ELSE Part(counts \o <<Line(sec, "rate", CompletionRate(completed_laps, total_laps), 0)>>,
                  "")

\* lines 161-167
SecStatistics(session) ==
    LET stats == StatLines("statistics", session)
    IN  Part(<<Line("statistics", "header", 0, 0)>> \o stats.lines, stats.err)

\* lines 197-269: the details of a driver's laps; get_telemetry() is called
\* unguarded, so an exception it raises leaves the loop
RECURSIVE LapDetails(_)
LapDetails(laps) ==
    IF laps = <<>> THEN Part(<<>>, "")
    ELSE LET lap == Head(laps)
         IN  IF lap.time = NaT THEN LapDetails(Tail(laps))
             ELSE IF lap.tel = "raises"
             THEN Part(<<Line("lap_by_lap", "lap", lap.drv, lap.id)>>, "TelemetryError")
             ELSE LET rest == LapDetails(Tail(laps))
                  IN  Part(<<Line("lap_by_lap", "lap", lap.drv, lap.id)>>
                             \o (IF lap.tel = "ok"
                                 THEN <<Line("lap_by_lap", "telemetry", lap.drv, lap.id)>>
                                 ELSE <<>>)
                             \o rest.lines, rest.err)

\* lines 174-271: the block of each driver of session.results, in native order
RECURSIVE DriverBlocks(_, _)
DriverBlocks(rows, session) ==
    IF rows = <<>> THEN Part(<<>>, "")
    ELSE LET driver      == Head(rows)
             OfDriver(lap) == lap.drv = driver.num
             driver_laps == SelectSeq(IndexedLaps(session), OfDriver)    \* pick_drivers
             fastest_lap == pick_fastest(driver_laps)
             head        == <<Line("lap_by_lap", "driver", driver.num, 0)>>
             details     == LapDetails(driver_laps)
             block ==
                 IF driver_laps = <<>> THEN Part(head, "")
                 ELSE Part(head \o <<Line("lap_by_lap", "summary", driver.num, fastest_lap.id)>>
                                \o details.lines, details.err)
         IN  IF block.err # "" THEN block
             ELSE LET rest == DriverBlocks(Tail(rows), session)
                  IN  Part(block.lines \o <<Line("lap_by_lap", "driver_end", driver.num, 0)>>
                             \o rest.lines, rest.err)

\* lines 169-271
SecLapByLap(session) ==
    LET blocks == DriverBlocks(session.results, session)
    IN  Part(<<Line("lap_by_lap", "header", 0, 0)>> \o blocks.lines, blocks.err)

\* lines 273-291
SecLLMOverview(session) ==
    LET stats == StatLines("llm_overview", session)
    IN  Part(<<Line("llm_overview", "header", 0, 0)>> \o stats.lines, stats.err)

\* lines 293-297: the footer with datetime.now()
SecFooter(now) == Part(<<Line("footer", "generated", now, 0)>>, "")

\* the sections run in order until one raises
RECURSIVE InOrder(_)
InOrder(parts) ==
    IF parts = <<>> THEN Part(<<>>, "")
    ELSE IF Head(parts).err # "" THEN Head(parts)
    ELSE LET rest == InOrder(Tail(parts))
         IN  Part(Head(parts).lines \o rest.lines, rest.err)

\* lines 124-127: weather_data is session.weather_data itself, not a copy, so
\* weather_data['Time'] = ... assigns a column of the Session's own frame.
\* The assignment is reached when no earlier section raised and the frame has
\* rows.
SessionWrites(args, session) ==
    IF /\ InOrder(<<SecHeader(args), SecOverview(session),
                    SecClassification(args, session)>>).err = ""
       /\ session.weather
    THEN {<<"weather_data", "Time">>}
    ELSE {}

\* the body with the timestamp of line 66 written under the event summary
ReportBody_Stamped(args, session, now) ==
    InOrder(<<SecHeader(args), Part(<<Line("event_summary", "generated", now, 0)>>, ""),
              SecOverview(session), SecClassification(args, session),
              SecTrackConditions(session), SecStatistics(session), SecLapByLap(session),
              SecLLMOverview(session), SecFooter(now)>>)

\* the body with the session statistics moved behind the per-driver blocks
ReportBody_BlocksFirst(args, session, now) ==
    InOrder(<<SecHeader(args), SecOverview(session), SecClassification(args, session),
              SecTrackConditions(session), SecLapByLap(session), SecStatistics(session),
              SecLLMOverview(session), SecFooter(now)>>)

\* lines 70-297: the body of the with-block
ReportBody(args, session, now) ==
    InOrder(<<SecHeader(args), SecOverview(session), SecClassification(args, session),
              SecTrackConditions(session), SecStatistics(session), SecLapByLap(session),
              SecLLMOverview(session), SecFooter(now)>>)

\* ---- the run ---------------------------------------------------------------
\* line 67: f"race_data_{event}_{year}_{session_type}.txt"
FileName(args) == <<args.event, args.year, args.session_type>>

RepEvents == {"Bahrain"}
RepYears == {2024}

RepArgs == [year : RepYears, event : RepEvents, session_type : SessionTypes,
            description : BOOLEAN]

FileNames == { FileName(a) : a \in RepArgs }

Absent == [exists |-> FALSE, text |-> <<>>]

\* a report left by an earlier run
OldReport == [exists |-> TRUE, text |-> <<Line("old", "text", 0, 0)>>]

\* no call before this one
NoCall == [ran |-> FALSE, args |-> [year |-> 2024, event |-> "Bahrain",
                                   session_type |-> "Race", description |-> FALSE],
           session |-> NoSession, now |-> 0, result |-> "none", text |-> <<>>]

\* the first call of extract_race_data, the provider holding one of sessions
FirstCall(sessions) ==
    /\ rep_pc = "load"
    /\ rep_args \in RepArgs
    /\ rep_session = NoSession
    /\ rep_now = 1
    /\ rep_result = "none"
    /\ rep_error = ""
    /\ fs \in {[f \in FileNames |-> Absent], [f \in FileNames |-> OldReport]}
    /\ rep_provider \in sessions
    /\ rep_assigned = {}
    /\ rep_runs = 1
    /\ rep_prev = NoCall

RepInit == FirstCall(Sessions)

\* the sessions with at most one driver and one lap
RerunSessions == { s \in Sessions : Len(s.results) <= 1 /\ Len(s.laps) <= 1 }

RerunInit == FirstCall(RerunSessions)

\* extract_race_data is not in use
RepIdle ==
    /\ rep_pc = "done"
    /\ rep_args = [year |-> 2024, event |-> "Bahrain", session_type |-> "Race",
                   description |-> FALSE]
    /\ rep_session = NoSession
    /\ rep_now = 1
    /\ rep_result = "none"
    /\ rep_error = ""
    /\ fs = [f \in FileNames |-> Absent]
    /\ rep_provider = NoSession
    /\ rep_assigned = {}
    /\ rep_runs = 0
    /\ rep_prev = NoCall

\* LoadSession with open(filename, 'w') moved before session.load(): a failed
\* load then leaves a created or truncated file behind
LoadSession_OpenBeforeLoad ==
    /\ rep_pc = "load"
    /\ \/ /\ rep_session' = rep_provider
          /\ rep_pc' = "open"
          /\ UNCHANGED <<rep_result, rep_error, fs>>
       \/ /\ rep_pc' = "done"
          /\ rep_result' = "raised"
          /\ rep_error' = "SessionLoadError"
          /\ fs' = [fs EXCEPT ![FileName(rep_args)] = [exists |-> TRUE, text |-> <<>>]]
          /\ UNCHANGED rep_session
    /\ UNCHANGED <<rep_args, rep_now, rep_provider, rep_assigned, rep_runs, rep_prev>>
    /\ UNCHANGED fmtVars
    /\ UNCHANGED dashVars
    /\ UNCHANGED telVars

\* lines 62-64: fastf1.get_session(...) and session.load() return the Session
\* the provider holds for the arguments, or raise, and the exception leaves
\* extract_race_data
LoadSession ==
    /\ rep_pc = "load"
    /\ \/ /\ rep_session' = rep_provider
          /\ rep_pc' = "open"
          /\ UNCHANGED <<rep_result, rep_error>>
       \/ /\ rep_pc' = "done"
          /\ rep_result' = "raised"
          /\ rep_error' = "SessionLoadError"
          /\ UNCHANGED rep_session
    /\ UNCHANGED <<rep_args, rep_now, fs, rep_provider, rep_assigned, rep_runs, rep_prev>>
    /\ UNCHANGED fmtVars
    /\ UNCHANGED dashVars
    /\ UNCHANGED telVars

\* OpenFile with open(filename, 'a'): what the file held stays in it
OpenFile_Append ==
    /\ rep_pc = "open"
    /\ fs' = [fs EXCEPT ![FileName(rep_args)].exists = TRUE]
    /\ rep_pc' = "write"
    /\ UNCHANGED <<rep_args, rep_session, rep_now, rep_result, rep_error,
                   rep_provider, rep_assigned, rep_runs, rep_prev>>
    /\ UNCHANGED fmtVars
    /\ UNCHANGED dashVars
    /\ UNCHANGED telVars

\* lines 66-69: open(filename, 'w') creates the file or truncates it
OpenFile ==
    /\ rep_pc = "open"
    /\ fs' = [fs EXCEPT ![FileName(rep_args)] = [exists |-> TRUE, text |-> <<>>]]
    /\ rep_pc' = "write"
    /\ UNCHANGED <<rep_args, rep_session, rep_now, rep_result, rep_error,
                   rep_provider, rep_assigned, rep_runs, rep_prev>>
    /\ UNCHANGED fmtVars
    /\ UNCHANGED dashVars
    /\ UNCHANGED telVars

\* lines 70-300: the sections are written until one raises; the with-block
\* closes the file either way, so what was written stays in it
WriteReport ==
    /\ rep_pc = "write"
    /\ LET body == ReportBody(rep_args, rep_session, rep_now)
       IN  /\ fs' = [fs EXCEPT ![FileName(rep_args)].text = @ \o body.lines]
           /\ rep_error' = body.err
           /\ rep_result' = IF body.err = "" THEN "returned" ELSE "raised"
    /\ rep_assigned' = SessionWrites(rep_args, rep_session)
    /\ rep_pc' = "done"
    /\ UNCHANGED <<rep_args, rep_session, rep_now, rep_provider, rep_runs, rep_prev>>
    /\ UNCHANGED fmtVars
    /\ UNCHANGED dashVars
    /\ UNCHANGED telVars

RepNext == LoadSession \/ OpenFile \/ WriteReport

\* the calls of extract_race_data one execution or a sequence of executions
\* makes at most
MaxRuns == 2

\* lines 305-308: extract_race_data is called again, with the same or other
\* arguments, in the same second or later; get_session builds a new Session
\* object from what the provider holds
CallAgain ==
    /\ rep_pc = "done"
    /\ rep_runs < MaxRuns
    /\ rep_prev' = [ran |-> TRUE, args |-> rep_args, session |-> rep_session,
                    now |-> rep_now, result |-> rep_result,
                    text |-> fs[FileName(rep_args)].text]
    /\ rep_args' \in RepArgs
    /\ rep_now' \in {rep_now, rep_now + 1}
    /\ rep_runs' = rep_runs + 1
    /\ rep_pc' = "load"
    /\ rep_session' = NoSession
    /\ rep_result' = "none"
    /\ rep_error' = ""
    /\ rep_assigned' = {}
    /\ UNCHANGED <<fs, rep_provider>>
    /\ UNCHANGED fmtVars
    /\ UNCHANGED dashVars
    /\ UNCHANGED telVars

RerunNext == LoadSession \/ OpenFile \/ WriteReport \/ CallAgain

(***************************************************************************)
(* The telemetry statistics of one lap (src/extract_race_data.py, lines    *)
(* 229-269).  A column is the sequence of its samples.                     *)
(***************************************************************************)
MaxThrottleSamples == 3
MaxBrakeSamples == 7

\* Throttle is a percentage: the values at and next to the two thresholds
ThrottleValues == {0, 5, 6, 94, 95, 100}

\* Brake is a boolean column (False compares equal to 0, True is > 0), a
\* percentage in older data
BrakeValues == {0, 1, 100}

Columns(values, n) == UNION { [1..k -> values] : k \in 0..n }

\* the full-throttle test of line 238 with > for >=
full_mask_Above(v) == v > 95

\* line 238: throttle_samples >= 95
full_mask(v) == v >= 95

\* line 239: (throttle_samples > 5) & (throttle_samples < 95)
partial_mask(v) == v > 5 /\ v < 95

\* line 240: throttle_samples <= 5
none_mask(v) == v <= 5

\* mask.mean() * 100 as the .1f format writes it, in tenths of a percent.
\* The quotient is rounded to the nearest tenth, a tie to the even one: a
\* tie needs a sample count that 16 divides.
Share(count, total) ==
    LET q == (count * 1000) \div total
        r == (count * 1000) % total
    IN  IF 2 * r > total THEN q + 1
        ELSE IF 2 * r < total THEN q
        ELSE IF q % 2 = 0 THEN q ELSE q + 1

full_throttle(samples) ==
    Share(Cardinality({i \in 1..Len(samples) : full_mask(samples[i])}), Len(samples))

partial_throttle(samples) ==
    Share(Cardinality({i \in 1..Len(samples) : partial_mask(samples[i])}), Len(samples))

no_throttle(samples) ==
    Share(Cardinality({i \in 1..Len(samples) : none_mask(samples[i])}), Len(samples))

\* lines 251-253
brake_usage_percent(samples) ==
    Share(Cardinality({i \in 1..Len(samples) : samples[i] > 0}), Len(samples))

brake_duration(samples) == Cardinality({i \in 1..Len(samples) : samples[i] > 0})

\* the loop body of lines 263-267 without its elif: a zone never ends
BrakeStep_NoReset(st, brake_val) ==
    IF brake_val > 0 /\ ~st.in_brake_zone
    THEN [brake_zones |-> st.brake_zones + 1, in_brake_zone |-> TRUE]
    ELSE st

\* lines 263-267: one iteration of the loop over brake_samples
BrakeStep(st, brake_val) ==
    IF brake_val > 0 /\ ~st.in_brake_zone
    THEN [brake_zones |-> st.brake_zones + 1, in_brake_zone |-> TRUE]
    ELSE IF brake_val = 0
         THEN [brake_zones |-> st.brake_zones, in_brake_zone |-> FALSE]
         ELSE st

RECURSIVE BrakeLoop(_, _)
BrakeLoop(st, samples) ==
    IF samples = <<>> THEN st
    ELSE BrakeLoop(BrakeStep(st, Head(samples)), Tail(samples))

\* lines 260-267
brake_zones(samples) ==
    BrakeLoop([brake_zones |-> 0, in_brake_zone |-> FALSE], samples).brake_zones

TelInit ==
    /\ tel_col \in {[name |-> "Throttle", samples |-> s] :
                        s \in Columns(ThrottleValues, MaxThrottleSamples)}
               \cup {[name |-> "Brake", samples |-> s] :
                        s \in Columns(BrakeValues, MaxBrakeSamples)}
    /\ tel_pc = "stats"
    /\ tel_out = <<>>

\* the statistics are not in use
TelIdle ==
    /\ tel_col = [name |-> "Brake", samples |-> <<>>]
    /\ tel_pc = "done"
    /\ tel_out = <<>>

\* lines 229, 235-246: nothing is written for an empty telemetry frame
ThrottleStats ==
    /\ tel_pc = "stats"
    /\ tel_col.name = "Throttle"
    /\ tel_out' = IF tel_col.samples = <<>> THEN <<>>
                  ELSE <<Line("lap_by_lap", "full_throttle", full_throttle(tel_col.samples), 0),
                         Line("lap_by_lap", "partial_throttle", partial_throttle(tel_col.samples), 0),
                         Line("lap_by_lap", "no_throttle", no_throttle(tel_col.samples), 0)>>
    /\ tel_pc' = "done"
    /\ UNCHANGED tel_col
    /\ UNCHANGED fmtVars
    /\ UNCHANGED repVars
    /\ UNCHANGED dashVars

\* lines 229, 248-269
BrakeStats ==
    /\ tel_pc = "stats"
    /\ tel_col.name = "Brake"
    /\ tel_out' = IF tel_col.samples = <<>> THEN <<>>
                  ELSE <<Line("lap_by_lap", "time_on_brakes", brake_usage_percent(tel_col.samples), 0),
                         Line("lap_by_lap", "brake_applications", brake_duration(tel_col.samples),
                              Len(tel_col.samples)),
                         Line("lap_by_lap", "brake_zones", brake_zones(tel_col.samples), 0)>>
    /\ tel_pc' = "done"
    /\ UNCHANGED tel_col
    /\ UNCHANGED fmtVars
    /\ UNCHANGED repVars
    /\ UNCHANGED dashVars

TelNext == ThrottleStats \/ BrakeStats

(***************************************************************************)
(* The dashboard (src/vizi.py).  Streamlit runs the script from top to     *)
(* bottom on every interaction; st.session_state is all that survives a    *)
(* run.  ScriptRun is one such run.                                        *)
(***************************************************************************)
MaxBest == 2

Years == {2023, 2024}
Events == {"Monaco", "Canada"}

\* the values of the three inputs (lines 55-57)
Triples == [year : Years, event : Events, session_type : SessionTypes]

NoTriple == [year |-> 0, event |-> "", session_type |-> ""]

\* a driver without laps, for whom pick_drivers(...) is empty
NoLaps == -2

\* session.get_driver(num)['FullName']
FullName(num) == 100 + num

\* The drivers of a Session in session.drivers order, each [num, best]: the
\* driver number and the LapTime of pick_drivers(num).pick_fastest() (NoLaps
\* without laps, NaT without a timed lap).  In session.results the driver at
\* index i is at Position i.
DriverLists ==
    UNION { [1 .. n -> { [num |-> 0, best |-> b] : b \in {NoLaps, NaT} \cup 1 .. MaxBest }] :
            n \in 0 .. MaxDrivers }

Numbered(drivers) == [i \in 1 .. Len(drivers) |-> [num |-> i, best |-> drivers[i].best]]

Providers == { Numbered(d) : d \in DriverLists }

\* st.session_state of a new browser session: no key is set
Unset == "unset"

NewSessionState ==
    [hide_visi_buton |-> Unset, last_selections |-> NoTriple, data_loaded |-> Unset,
     driver_number_name_map |-> <<>>]

\* lines 49-51
InitHide(state) ==
    IF state.hide_visi_buton = Unset THEN [state EXCEPT !.hide_visi_buton = "False"]
    ELSE state

\* ChangeDetection without line 64: the loaded flag survives a change of inputs
ChangeDetection_KeepsLoaded(state, cur) ==
    LET checked ==
            IF state.last_selections # NoTriple
            THEN LET last == state.last_selections
                 IN  IF cur.year # last.year \/ cur.event # last.event
                          \/ cur.session_type # last.session_type
                     THEN [state EXCEPT !.hide_visi_buton = "True"]
                     ELSE [state EXCEPT !.hide_visi_buton = "False"]
            ELSE state
    IN  IF checked.last_selections = NoTriple
        THEN [checked EXCEPT !.last_selections = cur]
        ELSE checked

\* lines 59-70: the change detection, then the first run's last_selections
ChangeDetection(state, cur) ==
    LET checked ==
            IF state.last_selections # NoTriple
            THEN LET last == state.last_selections
                 IN  IF cur.year # last.year \/ cur.event # last.event
                          \/ cur.session_type # last.session_type
                     THEN [state EXCEPT !.hide_visi_buton = "True", !.data_loaded = "False"]
                     ELSE [state EXCEPT !.hide_visi_buton = "False"]
            ELSE state
    IN  IF checked.last_selections = NoTriple
        THEN [checked EXCEPT !.last_selections = cur]
        ELSE checked

\* line 81: {num: session.get_driver(num)['FullName'] for num in session.drivers}
DriverMap(drivers) ==
    [i \in 1 .. Len(drivers) |-> [num |-> drivers[i].num, name |-> FullName(drivers[i].num)]]

\* what a handler did: the session state it leaves, whether it ran, how often
\* it called the session loader, and the st.error it showed ("" for none)
Handled(state, ran, calls, error) ==
    [state |-> state, ran |-> ran, calls |-> calls, error |-> error]

\* LoadHandler keeping the map it stored first
LoadHandler_KeepsMap(state, cur, click, ok, drivers) ==
    IF ~click THEN Handled(state, FALSE, 0, "")
    ELSE IF ~ok THEN Handled(state, TRUE, 1, "load")
    ELSE Handled([state EXCEPT !.driver_number_name_map =
                                   IF @ = <<>> THEN DriverMap(drivers) ELSE @,
                               !.last_selections = cur,
                               !.data_loaded = "True",
                               !.hide_visi_buton = "False"], TRUE, 1, "")

\* LoadHandler marking the data as loaded before the loader is called
LoadHandler_MarksFirst(state, cur, click, ok, drivers) ==
    IF ~click THEN Handled(state, FALSE, 0, "")
    ELSE IF ~ok
    THEN Handled([state EXCEPT !.data_loaded = "True", !.hide_visi_buton = "False"],
                 TRUE, 1, "load")
    ELSE Handled([state EXCEPT !.driver_number_name_map = DriverMap(drivers),
                               !.last_selections = cur,
                               !.data_loaded = "True",
                               !.hide_visi_buton = "False"], TRUE, 1, "")

\* lines 72-92: the Load button.  get_session + load are called once; when
\* they raise, the except branch shows the error and nothing is stored
LoadHandler(state, cur, click, ok, drivers) ==
    IF ~click THEN Handled(state, FALSE, 0, "")
    ELSE IF ~ok THEN Handled(state, TRUE, 1, "load")
    ELSE Handled([state EXCEPT !.driver_number_name_map = DriverMap(drivers),
                               !.last_selections = cur,
                               !.data_loaded = "True",
                               !.hide_visi_buton = "False"], TRUE, 1, "")

\* line 95: whether the driver multiselect is shown
Gate(state) == state.data_loaded = "True" /\ state.hide_visi_buton # "True"

\* lines 104-107: the numbers of the selected names, in the order of the map
selected_driver_numbers(map, selected_driver_names) ==
    LET Chosen(entry) == \E k \in 1 .. Len(selected_driver_names) :
                            selected_driver_names[k] = entry.name
        chosen == SelectSeq(map, Chosen)
    IN  [k \in 1 .. Len(chosen) |-> chosen[k].num]

\* lines 137-145: the best time of every driver of the session that has one,
\* in session.drivers order
HasBest(driver) == driver.best # NoLaps /\ driver.best # NaT

all_driver_best_times(drivers) == SelectSeq(drivers, HasBest)

\* an insertion that puts a driver before those with an equal time
InsertByTime_Unstable(ranked, driver) ==
    LET before == SelectSeq(ranked, LAMBDA r : r.best < driver.best)
        after  == SelectSeq(ranked, LAMBDA r : r.best >= driver.best)
    IN  before \o <<driver>> \o after

\* insertion after every driver whose time is not larger
InsertByTime(ranked, driver) ==
    LET before == SelectSeq(ranked, LAMBDA r : r.best <= driver.best)
        after  == SelectSeq(ranked, LAMBDA r : r.best > driver.best)
    IN  before \o <<driver>> \o after

\* line 148: sorted(..., key=lambda x: x[1]), a stable sort
RECURSIVE sorted(_)
sorted(items) ==
    IF items = <<>> THEN <<>>
    ELSE InsertByTime(sorted(SubSeq(items, 1, Len(items) - 1)), items[Len(items)])

\* position_mapping with the enumerate index used as it is
position_mapping_ZeroBased(sorted_drivers, num) ==
    (CHOOSE k \in 1 .. Len(sorted_drivers) : sorted_drivers[k].num = num) - 1

\* line 151: {driver: pos + 1 for pos, (driver, _) in enumerate(sorted_drivers)}
position_mapping(sorted_drivers, num) ==
    CHOOSE k \in 1 .. Len(sorted_drivers) : sorted_drivers[k].num = num

\* one "name: P.." line of the positions: the name shown, the driver number
\* whose data it shows, and the position (0: "No valid lap time")
PosLine(name, num, pos) == [name |-> name, num |-> num, pos |-> pos]

\* zip(a, b): as long as the shorter of the two
Zip(a, b) ==
    [k \in 1 .. (IF Len(a) < Len(b) THEN Len(a) ELSE Len(b)) |-> <<a[k], b[k]>>]

\* lines 119-133: Race and Qualifying, the Position of the row with the name
ResultLines(drivers, selected_driver_names) ==
    [k \in 1 .. Len(selected_driver_names) |->
        LET row == CHOOSE i \in 1 .. Len(drivers) :
                      FullName(drivers[i].num) = selected_driver_names[k]
        IN  PosLine(selected_driver_names[k], drivers[row].num, row)]

\* lines 134-161: practice sessions, ranked over all drivers of the session
PracticeLines(drivers, numbers, selected_driver_names) ==
    LET best_times     == all_driver_best_times(drivers)
        sorted_drivers == sorted(best_times)
        pairs          == Zip(numbers, selected_driver_names)
    IN  [k \in 1 .. Len(pairs) |->
            LET driver_number == pairs[k][1]
                driver_name   == pairs[k][2]
            IN  IF \E i \in 1 .. Len(best_times) : best_times[i].num = driver_number
                THEN PosLine(driver_name, driver_number,
                             position_mapping(sorted_drivers, driver_number))
                ELSE PosLine(driver_name, driver_number, 0)]

\* lines 166-186 and 199-215: one trace per pair of zip(selected_driver_numbers,
\* selected_driver_names), named with the name and drawn from the laps of the
\* number
ChartSeries(numbers, selected_driver_names) ==
    LET pairs == Zip(numbers, selected_driver_names)
    IN  [k \in 1 .. Len(pairs) |-> [name |-> pairs[k][2], num |-> pairs[k][1]]]

\* what the visualization handler did: whether it ran, how often it called
\* the session loader, the position lines it wrote, the series of the lap
\* time chart and the st.error it showed
Shown(ran, calls, lines, series, error) ==
    [ran |-> ran, calls |-> calls, lines |-> lines, series |-> series, error |-> error]

\* VizHandler reading a Session kept from the Load instead of loading again
VizHandler_UsesCached(cur, map, selected_driver_names, click, ok, drivers) ==
    IF ~click THEN Shown(FALSE, 0, <<>>, <<>>, "")
    ELSE LET numbers == selected_driver_numbers(map, selected_driver_names)
             lines == IF cur.session_type \in {"Race", "Qualifying"}
                      THEN ResultLines(drivers, selected_driver_names)
                      ELSE PracticeLines(drivers, numbers, selected_driver_names)
             NoFastest(num) == \E i \in 1 .. Len(drivers) :
                                  drivers[i].num = num /\ ~HasBest(drivers[i])
         IN  Shown(TRUE, 0, lines, ChartSeries(numbers, selected_driver_names),
                   IF \E k \in 1 .. Len(numbers) : NoFastest(numbers[k]) THEN "viz" ELSE "")

\* lines 110-237: "Get data visualizations".  The session is loaded again
\* (lines 113-115); the positions are written; the charts then need the
\* fastest lap of every selected driver, and any exception ends in st.error
VizHandler(cur, map, selected_driver_names, click, ok, drivers) ==
    IF ~click THEN Shown(FALSE, 0, <<>>, <<>>, "")
    ELSE IF ~ok THEN Shown(TRUE, 1, <<>>, <<>>, "viz")
    ELSE LET numbers == selected_driver_numbers(map, selected_driver_names)
             lines == IF cur.session_type \in {"Race", "Qualifying"}
                      THEN ResultLines(drivers, selected_driver_names)
                      ELSE PracticeLines(drivers, numbers, selected_driver_names)
             NoFastest(num) == \E i \in 1 .. Len(drivers) :
                                  drivers[i].num = num /\ ~HasBest(drivers[i])
         IN  Shown(TRUE, 1, lines, ChartSeries(numbers, selected_driver_names),
                   IF \E k \in 1 .. Len(numbers) : NoFastest(numbers[k]) THEN "viz" ELSE "")

\* the values st.multiselect can return: the chosen names in the order chosen
Selections(map) ==
    LET names == { map[i].name : i \in 1 .. Len(map) }
    IN  UNION { { q \in [1 .. k -> names] : \A i, j \in 1 .. k : i # j => q[i] # q[j] } :
                k \in 0 .. Len(map) }

NoRun ==
    [cur |-> NoTriple, load_click |-> FALSE, load_ok |-> FALSE, load_calls |-> 0,
     offered |-> FALSE, selected |-> <<>>, viz_offered |-> FALSE, viz_click |-> FALSE,
     viz_calls |-> 0, lines |-> <<>>, series |-> <<>>, error |-> ""]

\* the providers tried under the gate's specification: every driver has the
\* same valid best time
SameBest(drivers) == \A i \in 1 .. Len(drivers) : drivers[i].best = 1

DashInit ==
    /\ ss = NewSessionState
    /\ provider \in { d \in Providers : SameBest(d) }
    /\ run = NoRun
    /\ loaded_for = NoTriple

\* the dashboard is not in use
DashIdle ==
    /\ ss = NewSessionState
    /\ provider = <<>>
    /\ run = NoRun
    /\ loaded_for = NoTriple

\* the dashboard right after the first successful Load, for the triple t
Loaded(t, drivers) ==
    LET first == ChangeDetection(InitHide(NewSessionState), t)
    IN  LoadHandler(ChangeDetection(InitHide(first), t), t, TRUE, TRUE, drivers).state

\* lines 55-56: the year and the event the widgets start with
DefaultYear == 2024
DefaultEvent == "Monaco"

VizInit ==
    /\ provider \in Providers
    /\ loaded_for \in { t \in Triples : t.year = DefaultYear /\ t.event = DefaultEvent }
    /\ ss = Loaded(loaded_for, provider)
    /\ run = [NoRun EXCEPT !.cur = loaded_for, !.load_click = TRUE, !.load_ok = TRUE,
                           !.load_calls = 1, !.offered = TRUE]

\* lines 77-78 and 114-115: the drivers of the Session fastf1 returns for the
\* triple t.  provider lists them for the year the page starts with; a season
\* earlier the same drivers carry other numbers.
DriversOf(t) ==
    [i \in 1 .. Len(provider) |->
        [num |-> provider[i].num + 10 * (DefaultYear - t.year), best |-> provider[i].best]]

\* One run of the script with the widget values cur, the selection sel and at
\* most one pressed button.
ScriptRun(cur, load_click, load_ok, sel, viz_click, viz_ok) ==
    /\ LET detected == ChangeDetection(InitHide(ss), cur)
           load     == LoadHandler(detected, cur, load_click, load_ok, DriversOf(cur))
           state    == load.state
           offered  == Gate(state)
           \* a multiselect whose options changed is a new widget, without a value
           selected_driver_names ==
               IF offered /\ state.driver_number_name_map = ss.driver_number_name_map
               THEN sel ELSE <<>>
           viz_offered == offered /\ selected_driver_names # <<>>
           viz == VizHandler(cur, state.driver_number_name_map, selected_driver_names,
                             viz_offered /\ viz_click, viz_ok, DriversOf(cur))
       IN  /\ ss' = state
           /\ run' = [cur |-> cur, load_click |-> load_click,
                      load_ok |-> load_click /\ load_ok, load_calls |-> load.calls,
                      offered |-> offered, selected |-> selected_driver_names,
                      viz_offered |-> viz_offered, viz_click |-> viz.ran,
                      viz_calls |-> viz.calls, lines |-> viz.lines,
                      series |-> viz.series,
                      error |-> IF load.error # "" THEN load.error ELSE viz.error]
           /\ loaded_for' = IF load_click /\ load_ok THEN cur ELSE loaded_for
    /\ UNCHANGED provider
    /\ UNCHANGED fmtVars
    /\ UNCHANGED repVars
    /\ UNCHANGED telVars

\* the selections the operator can have made: none unless the run before
\* showed the multiselect
Selectable == IF run.offered THEN Selections(ss.driver_number_name_map) ELSE {<<>>}

\* a run caused by a changed input (or the first run of the page)
ChangeInputs ==
    \E cur \in Triples, sel \in Selectable :
        ScriptRun(cur, FALSE, FALSE, sel, FALSE, FALSE)

\* a run caused by a changed driver selection
Reselect ==
    /\ run.offered
    /\ \E sel \in Selectable : ScriptRun(run.cur, FALSE, FALSE, sel, FALSE, FALSE)

\* a run caused by the Load button.  The button is labelled with the session
\* kind, so it is the button the run before showed only for that kind; the
\* year and the event may have been edited since.
PressLoad ==
    /\ run.cur # NoTriple
    /\ \E cur \in Triples, load_ok \in BOOLEAN :
          /\ cur.session_type = run.cur.session_type
          /\ ScriptRun(cur, TRUE, load_ok, run.selected, FALSE, FALSE)

\* a run caused by "Get data visualizations", which the run before showed
PressViz ==
    /\ run.viz_offered
    /\ \E viz_ok \in BOOLEAN :
          ScriptRun(run.cur, FALSE, FALSE, run.selected, TRUE, viz_ok)

DashNext == ChangeInputs \/ PressLoad \/ PressViz

VizNext == Reselect \/ PressViz

\* ---- specifications ---------------------------------------------------------
\* each specification runs one part of the program and leaves the others alone
InitFmt == FmtInit /\ RepIdle /\ DashIdle /\ TelIdle

InitReport == RepInit /\ FmtIdle /\ DashIdle /\ TelIdle

InitDash == DashInit /\ FmtIdle /\ RepIdle /\ TelIdle

InitViz == VizInit /\ FmtIdle /\ RepIdle /\ TelIdle

InitTel == TelInit /\ FmtIdle /\ RepIdle /\ DashIdle

InitRerun == RerunInit /\ FmtIdle /\ DashIdle /\ TelIdle

SpecFmt == InitFmt /\ [][FmtNext]_vars

SpecReport == InitReport /\ [][RepNext]_vars

SpecDash == InitDash /\ [][DashNext]_vars

SpecViz == InitViz /\ [][VizNext]_vars

SpecTel == InitTel /\ [][TelNext]_vars

SpecRerun == InitRerun /\ [][RerunNext]_vars

\* ---- reading a formatted duration back -----------------------------------
IsDigit(c) == c \in {"0", "1", "2", "3", "4", "5", "6", "7", "8", "9"}

DigitVal(c) == CHOOSE d \in 0 .. 9 : Digit(d) = c

RECURSIVE Num(_)
Num(s) == IF s = <<>> THEN 0 ELSE 10 * Num(SubSeq(s, 1, Len(s) - 1)) + DigitVal(s[Len(s)])

\* s is M:SS.mmm: one or more minute digits without a leading zero, ":",
\* two second digits in 00..59, ".", three millisecond digits
IsMSSmmm(s) ==
    /\ Len(s) >= 8
    /\ LET k == Len(s) - 7
       IN  /\ \A i \in 1 .. Len(s) : i \notin {k + 1, k + 4} => IsDigit(s[i])
           /\ s[k + 1] = ":"
           /\ s[k + 4] = "."
           /\ (k > 1 => s[1] # "0")
           /\ Num(SubSeq(s, k + 2, k + 3)) <= 59

\* the duration a string of digits, ":" and "." reads back as, in milliseconds
ReadBackMs(s) ==
    LET k == Len(s) - 7
    IN  (Num(SubSeq(s, 1, k)) * 60 + Num(SubSeq(s, k + 2, k + 3))) * 1000
          + Num(SubSeq(s, k + 5, k + 7))

\* C1: for every non-missing, non-negative duration format_timedelta returns
\* M:SS.mmm (minutes unpadded, seconds 00..59, three millisecond digits) that
\* reads back as the duration to the millisecond (within half a millisecond);
\* 65.5 s gives "1:05.500"; a missing duration gives exactly "No time".
C1_FormatTimedelta ==
    fmt_out # <<>> =>
        IF fmt_td = NaT THEN fmt_out = NoTime
        ELSE /\ IsMSSmmm(fmt_out)
             /\ 2 * ReadBackMs(fmt_out) * SubMs - 2 * fmt_td <= SubMs
             /\ 2 * fmt_td - 2 * ReadBackMs(fmt_out) * SubMs <= SubMs
             /\ (fmt_td = 65500 * SubMs =>
                    fmt_out = <<"1", ":", "0", "5", ".", "5", "0", "0">>)

\* what format_timedelta does meet: the string always reads back as the
\* duration to the millisecond, and a missing duration gives "No time"
FormatReadsBack ==
    fmt_out # <<>> =>
        IF fmt_td = NaT THEN fmt_out = NoTime
        ELSE /\ 2 * ReadBackMs(fmt_out) * SubMs - 2 * fmt_td <= SubMs
             /\ 2 * fmt_td - 2 * ReadBackMs(fmt_out) * SubMs <= SubMs

\* ---- the report ------------------------------------------------------------
\* the text of the file the current run writes
Doc == fs[FileName(rep_args)].text

HasLine(sec, kind) == \E i \in 1 .. Len(Doc) : Doc[i].sec = sec /\ Doc[i].kind = kind

HasLineOf(sec, kind, a, b) == \E i \in 1 .. Len(Doc) : Doc[i] = Line(sec, kind, a, b)

\* the run has ended and its Session was loaded
ReportEnded == rep_pc = "done" /\ rep_error # "SessionLoadError"

\* C2: with a Session of zero laps extract_race_data reports the completion
\* rate as "0.0%" at each place it computes it (session statistics, closing
\* overview) and completes the report, without a division error.
C2_ZeroLapsRate ==
    (ReportEnded /\ Len(rep_session.laps) = 0 /\ HasLine("statistics", "header")) =>
        /\ rep_error # "ZeroDivisionError"
        /\ rep_result = "returned"
        /\ HasLineOf("statistics", "rate", 0, 0)
        /\ HasLineOf("llm_overview", "rate", 0, 0)

\* a lap whose telemetry was asked for in this run and whose retrieval raised
TelemetryFailedFor(i) ==
    /\ i \in 1 .. Len(rep_session.laps)
    /\ rep_session.laps[i].tel = "raises"
    /\ HasLineOf("lap_by_lap", "lap", rep_session.laps[i].drv, i)

\* C3: when retrieving a lap's telemetry raises, only that lap's telemetry
\* subsection is omitted: every lap with a time of every driver of the results
\* and every driver block are written, the closing sections are written, and
\* extract_race_data returns normally.
C3_TelemetryFailureSkipped ==
    (ReportEnded /\ \E i \in 1 .. Len(rep_session.laps) : TelemetryFailedFor(i)) =>
        /\ rep_result = "returned"
        /\ \A i \in 1 .. Len(rep_session.laps) :
              LET lap == rep_session.laps[i]
              IN  /\ (lap.time # NaT) = HasLineOf("lap_by_lap", "lap", lap.drv, i)
                  /\ (lap.time # NaT /\ lap.tel = "ok")
                        = HasLineOf("lap_by_lap", "telemetry", lap.drv, i)
        /\ \A d \in 1 .. Len(rep_session.results) :
              HasLineOf("lap_by_lap", "driver_end", rep_session.results[d].num, 0)
        /\ HasLine("llm_overview", "header")
        /\ HasLine("footer", "generated")

\* C6: when loading the Session fails, the exception leaves extract_race_data
\* and the working directory is as it was: no file is created, truncated or
\* written (an existing report keeps its content).
C6_LoadFailureAborts ==
    [][(rep_pc = "load" /\ rep_error' = "SessionLoadError") =>
          (rep_result' = "raised" /\ rep_pc' = "done" /\ fs' = fs)]_vars

C6_Witness ==
    /\ rep_pc = "done"
    /\ rep_error = "SessionLoadError"
    /\ rep_result = "raised"
    /\ fs[FileName(rep_args)] = OldReport

IsPLine(line) == line.sec = "classification" /\ line.kind = "P"

\* C8: for Race and Qualifying the classification holds exactly one line per
\* driver of the session results, in ascending order of position.
C8_ClassificationOrder ==
    (ReportEnded /\ rep_args.session_type \in {"Race", "Qualifying"}) =>
        LET rows == SelectSeq(Doc, IsPLine)
            res  == rep_session.results
        IN  /\ Len(rows) = Len(res)
            /\ \A i, j \in 1 .. Len(rows) : i < j => rows[i].a < rows[j].a
            /\ \A d \in 1 .. Len(res) :
                  \E i \in 1 .. Len(rows) : rows[i].a = res[d].pos /\ rows[i].b = res[d].num

\* ---- the dashboard -----------------------------------------------------------
\* C4: after a successful load, a script run whose current triple differs
\* from the last loaded triple leaves data_loaded reset and offers neither
\* the driver multiselect nor "Get data visualizations".
C4_ChangeInvalidates ==
    (loaded_for # NoTriple /\ run.cur # NoTriple /\ run.cur # loaded_for) =>
        /\ ss.data_loaded = "False"
        /\ ~run.offered
        /\ ~run.viz_offered
        /\ ~run.viz_click

C4_Witness ==
    /\ loaded_for # NoTriple
    /\ run.cur # loaded_for
    /\ run.cur.year # loaded_for.year
    /\ ss.data_loaded = "False"
    /\ ss.driver_number_name_map # <<>>
    /\ ~run.offered

\* C5 as stated: the Session is loaded once and cached, so a "Get data
\* visualizations" request reuses it and does not invoke the session loader.
C5_VizReusesSession ==
    (run.viz_click /\ run.cur = loaded_for) => run.viz_calls = 0

\* C5 as amended: no Session is kept between script runs.  A run invokes the
\* session loader exactly once when Load was pressed, exactly once more when
\* "Get data visualizations" was requested, and not otherwise.
C5_LoaderCalls ==
    /\ run.load_calls = (IF run.load_click THEN 1 ELSE 0)
    /\ run.viz_calls = (IF run.viz_click THEN 1 ELSE 0)
    /\ run.viz_click => (run.viz_offered /\ run.cur = loaded_for)

C5_Witness ==
    /\ run.viz_click
    /\ run.cur = loaded_for
    /\ run.viz_calls = 1
    /\ run.lines # <<>>

\* C7: when the session loader raises on a Load press, an error is shown, the
\* loader was called once, and the press leaves driver_number_name_map and
\* last_selections as they were and does not set data_loaded; a failed load
\* for a triple other than the last loaded one does not offer the drivers.
C7_FailedLoad ==
    [][(run'.load_click /\ ~run'.load_ok) =>
          /\ run'.error = "load"
          /\ run'.load_calls = 1
          /\ ss'.driver_number_name_map = ss.driver_number_name_map
          /\ ss'.last_selections = ss.last_selections
          /\ (ss'.data_loaded = "True" => ss.data_loaded = "True")
          /\ (run'.cur # ss.last_selections => (~run'.offered /\ ss'.data_loaded # "True"))
      ]_vars

C7_Witness ==
    /\ run.load_click
    /\ ~run.load_ok
    /\ run.error = "load"
    /\ loaded_for # NoTriple
    /\ run.cur # loaded_for
    /\ ~run.offered

\* the best time of driver number num of the session
BestOf(num) == provider[CHOOSE i \in 1 .. Len(provider) : provider[i].num = num].best

\* the index of driver number num in session.drivers
NativeIndex(num) == CHOOSE i \in 1 .. Len(provider) : provider[i].num = num

PracticeShown == run.viz_click /\ run.cur.session_type = "FP1" /\ run.lines # <<>>

\* C9: in the practice ranking a driver with a smaller best lap time gets the
\* smaller position, and of two drivers with equal best lap times the one
\* earlier in the session's driver order gets the smaller position.
C9_PracticeOrder ==
    PracticeShown =>
        \A k, m \in 1 .. Len(run.lines) :
            LET a == run.lines[k]
                b == run.lines[m]
            IN  (a.pos > 0 /\ b.pos > 0) =>
                  /\ BestOf(a.num) < BestOf(b.num) => a.pos < b.pos
                  /\ (BestOf(a.num) = BestOf(b.num) /\ NativeIndex(a.num) < NativeIndex(b.num))
                        => a.pos < b.pos

C9_Witness ==
    /\ PracticeShown
    /\ \E k, m \in 1 .. Len(run.lines) :
          /\ run.lines[k].pos > 0
          /\ run.lines[m].pos = run.lines[k].pos + 1
          /\ BestOf(run.lines[k].num) = BestOf(run.lines[m].num)
          /\ NativeIndex(run.lines[k].num) < NativeIndex(run.lines[m].num)

\* the drivers of the session ranked before driver number num: a smaller best
\* time, or the same best time and earlier in the session's driver order
RankedBefore(num) ==
    { i \in 1 .. Len(provider) :
        /\ HasBest(provider[i])
        /\ \/ provider[i].best < BestOf(num)
           \/ provider[i].best = BestOf(num) /\ i < NativeIndex(num) }

\* C10: in practice sessions the position shown for a driver number is its
\* 1-based rank among all drivers of the session with a valid best lap,
\* whichever drivers are selected; a selected driver number without a valid
\* best lap gets "No valid lap time".
C10_RankOverAll ==
    PracticeShown =>
        \A k \in 1 .. Len(run.lines) :
            LET line == run.lines[k]
            IN  IF HasBest(provider[NativeIndex(line.num)])
                THEN line.pos = 1 + Cardinality(RankedBefore(line.num))
                ELSE line.pos = 0

C10_Witness ==
    /\ PracticeShown
    /\ Len(run.lines) < Len(provider)
    /\ \E k \in 1 .. Len(run.lines) : run.lines[k].pos = 2
    /\ \A k \in 1 .. Len(run.lines) : run.lines[k].pos # 1

(***************************************************************************)
(* The telemetry statistics.                                               *)
(***************************************************************************)
\* the maximal runs of consecutive samples with brake > 0, each named by the
\* index of its first sample
MaximalRuns(samples) ==
    { i \in 1 .. Len(samples) :
        samples[i] > 0 /\ (i = 1 \/ ~(samples[i - 1] > 0)) }

BrakeWritten == tel_pc = "done" /\ tel_col.name = "Brake" /\ tel_out # <<>>

\* C11: the brake-zone count of a lap is the number of maximal runs of
\* consecutive samples with brake > 0, for every sequence of samples (an
\* empty or all-zero sequence gives 0), and that count is what is written.
C11_BrakeZones ==
    tel_col.name = "Brake" =>
        /\ brake_zones(tel_col.samples) = Cardinality(MaximalRuns(tel_col.samples))
        /\ BrakeWritten =>
              /\ tel_out[3].kind = "brake_zones"
              /\ tel_out[3].a = Cardinality(MaximalRuns(tel_col.samples))

C11_Witness ==
    /\ BrakeWritten
    /\ tel_col.samples = <<0, 1, 1, 0, 0, 1, 0>>
    /\ tel_out[3].a = 2

ThrottleWritten == tel_pc = "done" /\ tel_col.name = "Throttle" /\ tel_out # <<>>

\* the buckets a throttle sample is counted in
BucketsOf(v) ==
    {b \in {"full", "partial", "none"} :
        \/ b = "full" /\ full_mask(v)
        \/ b = "partial" /\ partial_mask(v)
        \/ b = "none" /\ none_mask(v)}

\* every sample is counted in exactly one bucket
OneBucketEach ==
    \A i \in 1 .. Len(tel_col.samples) : Cardinality(BucketsOf(tel_col.samples[i])) = 1

\* the sum of the three percentages written, in tenths of a percent
WrittenSum == tel_out[1].a + tel_out[2].a + tel_out[3].a

\* C12 as stated: every throttle sample is counted in exactly one of the
\* buckets full (>= 95), partial and none (<= 5), and the three percentages
\* written sum to 100%.
C12_ThrottleSum ==
    ThrottleWritten => OneBucketEach /\ WrittenSum = 1000

\* C12, amended: every throttle sample is counted in exactly one of the
\* buckets, the values 5 (none) and 95 (full) included, and the three
\* percentages, each written with one decimal, sum to 100% within rounding:
\* to 99.9, 100.0 or 100.1.
C12_ThrottleWithinRounding ==
    ThrottleWritten =>
        /\ OneBucketEach
        /\ \A i \in 1 .. Len(tel_col.samples) :
              /\ tel_col.samples[i] = 5 => BucketsOf(5) = {"none"}
              /\ tel_col.samples[i] = 95 => BucketsOf(95) = {"full"}
        /\ WrittenSum \in 999 .. 1001

C12_Witness ==
    /\ ThrottleWritten
    /\ \E i, j \in 1 .. Len(tel_col.samples) :
          tel_col.samples[i] = 5 /\ tel_col.samples[j] = 95
    /\ WrittenSum = 999

(***************************************************************************)
(* Two calls of extract_race_data.                                         *)
(***************************************************************************)
\* this call and the one before it have ended, both with the session loaded,
\* and had the same arguments (the description included) and the same Session
SameInputs ==
    /\ rep_pc = "done"
    /\ rep_prev.ran
    /\ rep_error # "SessionLoadError"
    /\ rep_prev.session # NoSession
    /\ rep_prev.args = rep_args
    /\ rep_prev.session = rep_session

\* a document with the time of its 'Analysis generated' line blanked
Unstamped(doc) ==
    [i \in 1 .. Len(doc) |->
        IF doc[i].sec = "footer" /\ doc[i].kind = "generated"
        THEN Line("footer", "generated", 0, 0)
        ELSE doc[i]]

\* C13 as stated: two calls on the same Session with the same description
\* write identical documents, whenever each of them happens.
C13_Deterministic == SameInputs => Doc = rep_prev.text

\* C13, amended: two calls on the same Session with the same description
\* write documents that are identical except for the time in the footer's
\* 'Analysis generated' line, which is the second of the call; calls within
\* the same second write identical documents.
C13_SameButTimestamp ==
    SameInputs =>
        /\ Unstamped(Doc) = Unstamped(rep_prev.text)
        /\ rep_now = rep_prev.now => Doc = rep_prev.text
        /\ \A i \in 1 .. Len(Doc) :
              Doc[i].kind = "generated" => Doc[i].sec = "footer" /\ Doc[i].a = rep_now

C13_Witness ==
    /\ SameInputs
    /\ rep_result = "returned"
    /\ rep_prev.result = "returned"
    /\ rep_now # rep_prev.now
    /\ Doc # rep_prev.text
    /\ Unstamped(Doc) = Unstamped(rep_prev.text)

\* the report files of a triple (event, year, session kind) in the directory
FilesOf(event, year, session_type) ==
    { f \in DOMAIN fs : fs[f].exists /\ f[1] = event /\ f[2] = year /\ f[3] = session_type }

\* C16: the file name depends on (event, year, session kind) only and the
\* file is opened for overwrite: after a call that returns there is exactly
\* one report file for its triple and it holds exactly the document of that
\* call, with nothing of what was in the file before.
C16_OverwriteLatest ==
    (rep_pc = "done" /\ rep_result = "returned") =>
        /\ FilesOf(rep_args.event, rep_args.year, rep_args.session_type)
              = {FileName(rep_args)}
        /\ FileName(rep_args)
              = FileName([rep_args EXCEPT !.description = ~rep_args.description])
        /\ Doc = ReportBody(rep_args, rep_session, rep_now).lines
        /\ Doc[Len(Doc)] = Line("footer", "generated", rep_now, 0)
        /\ Cardinality({i \in 1 .. Len(Doc) : Doc[i].sec = "event_summary"}) = 1
        /\ \A i \in 1 .. Len(Doc) : Doc[i].sec # "old"

\* a second call for the same triple returned after a first one that had
\* written a longer document
C16_Witness ==
    /\ rep_pc = "done"
    /\ rep_result = "returned"
    /\ rep_prev.ran
    /\ rep_prev.result = "returned"
    /\ FileName(rep_prev.args) = FileName(rep_args)
    /\ Len(Doc) < Len(rep_prev.text)

(***************************************************************************)
(* The layout of the report and the loaded Session.                        *)
(***************************************************************************)
\* the place of a section in the document
SectionRank(sec) ==
    CASE sec = "description"    -> 1
      [] sec = "event_summary"  -> 2
      [] sec = "overview"       -> 3
      [] sec = "classification" -> 4
      [] sec = "conditions"     -> 5
      [] sec = "statistics"     -> 6
      [] sec = "lap_by_lap"     -> 7
      [] sec = "llm_overview"   -> 8
      [] sec = "footer"         -> 9
      [] OTHER                  -> 0

\* the lines of the aggregate session statistics
IsStat(line) == line.kind \in {"total", "completed", "rate"}

\* the numbers of the statistics written in section sec
StatsIn(sec) ==
    { <<Doc[i].kind, Doc[i].a>> : i \in { k \in 1 .. Len(Doc) : Doc[k].sec = sec /\ IsStat(Doc[k]) } }

\* C14 as stated: the aggregate session statistics (total laps, laps with a
\* valid time, completion rate) are written once, after all per-driver
\* lap-by-lap blocks.
C14_StatisticsLast ==
    ReportEnded =>
        /\ \A i, j \in 1 .. Len(Doc) :
              (IsStat(Doc[i]) /\ Doc[j].sec = "lap_by_lap") => j < i
        /\ \A i, j \in 1 .. Len(Doc) :
              (IsStat(Doc[i]) /\ Doc[j].kind = Doc[i].kind) => i = j

\* C14, amended: the sections are written in this order, each at most once:
\* description (if provided), event summary, session overview,
\* classification, track conditions, session statistics (total laps, laps
\* with a valid time, completion rate), the per-driver lap-by-lap blocks, a
\* closing overview that writes the same three statistics a second time, and
\* the footer.
C14_SectionOrder ==
    ReportEnded =>
        /\ \A i \in 1 .. Len(Doc) :
              /\ SectionRank(Doc[i].sec) > 0
              /\ i > 1 => SectionRank(Doc[i - 1].sec) <= SectionRank(Doc[i].sec)
              \* a section starts once: its first line follows another section
              /\ Doc[i].kind \in {"header", "text", "generated"} =>
                    (i = 1 \/ Doc[i - 1].sec # Doc[i].sec)
              /\ IsStat(Doc[i]) => Doc[i].sec \in {"statistics", "llm_overview"}
        /\ rep_result = "returned" =>
              /\ StatsIn("statistics") = StatsIn("llm_overview")
              /\ Cardinality(StatsIn("statistics")) = 3
              /\ Doc[Len(Doc)].sec = "footer"

\* a report with all nine sections, the per-driver blocks between the two
\* places of the statistics
C14_Witness ==
    /\ ReportEnded
    /\ rep_result = "returned"
    /\ \A r \in 1 .. 9 : \E i \in 1 .. Len(Doc) : SectionRank(Doc[i].sec) = r
    /\ \E i, j, k \in 1 .. Len(Doc) :
          /\ i < j /\ j < k
          /\ Doc[i].sec = "statistics" /\ Doc[i].kind = "total"
          /\ Doc[j].sec = "lap_by_lap" /\ Doc[j].kind = "lap"
          /\ Doc[k].sec = "llm_overview" /\ Doc[k].kind = "total"

MapsTo(num, name) ==
    \E i \in 1 .. Len(ss.driver_number_name_map) :
        ss.driver_number_name_map[i] = [num |-> num, name |-> name]

\* C17: every position line and every chart series labelled with a selected
\* driver's name is computed from the laps of the driver number that
\* driver_number_name_map maps to that name, whatever the order in which the
\* drivers were selected.
C17_NameConsistent ==
    run.viz_click =>
        /\ \A k \in 1 .. Len(run.lines) : MapsTo(run.lines[k].num, run.lines[k].name)
        /\ \A k \in 1 .. Len(run.series) : MapsTo(run.series[k].num, run.series[k].name)

\* C18: over every sequence of script runs, whenever the driver multiselect
\* is offered, data_loaded is true, last_selections is the triple of the run,
\* and driver_number_name_map is the map built by the most recent successful
\* load, which was a load of exactly that triple.
C18_OfferedMeansLoaded ==
    run.offered =>
        /\ ss.data_loaded = "True"
        /\ ss.hide_visi_buton = "False"
        /\ ss.last_selections = run.cur
        /\ loaded_for = run.cur
        /\ ss.driver_number_name_map = DriverMap(DriversOf(run.cur))

\* the multiselect is offered for a triple that was loaded after another one
\* had been loaded, and after a Load that failed
C18_Witness ==
    /\ run.offered
    /\ run.load_click
    /\ ~run.load_ok
    /\ run.cur.year # DefaultYear
    /\ ss.driver_number_name_map # <<>>
    /\ ss.driver_number_name_map # DriverMap(provider)

\* C19: driver selection becomes available only through a successful Load:
\* a run that offers the multiselect after a run that did not is a run in
\* which Load was pressed and succeeded.  After a run whose inputs differed
\* from the last loaded triple, a run that sets them back to it without
\* pressing Load clears hide_visi_buton but leaves data_loaded false, so it
\* does not offer the multiselect.
C19_OnlyThroughLoad ==
    [][ /\ (~run.offered /\ run'.offered) => (run'.load_click /\ run'.load_ok)
        /\ ( /\ loaded_for # NoTriple
             /\ run.cur # loaded_for
             /\ run'.cur = loaded_for
             /\ ~run'.load_click )
           => /\ ss'.hide_visi_buton = "False"
              /\ ss'.data_loaded = "False"
              /\ ~run'.offered ]_vars

\* the inputs are back at the last loaded triple, without a Load, after a run
\* in which they differed: the flag is cleared and the multiselect hidden
C19_Witness ==
    /\ loaded_for # NoTriple
    /\ run.cur = loaded_for
    /\ ~run.load_click
    /\ ss.hide_visi_buton = "False"
    /\ ss.data_loaded = "False"
    /\ ~run.offered

====
